---- MODULE Spec2Model ----
(***************************************************************************)
(* A model of javax.py, the Sublime Text plug-in that generates a Java     *)
(* Builder class from the field declarations selected in a buffer.         *)
(*                                                                         *)
(* Strings are sequences of one-character strings, so that the regular     *)
(* expressions, the string templates and the formatter of the plug-in are  *)
(* modelled by what they do to the characters.                             *)
(***************************************************************************)
EXTENDS Integers, Sequences, FiniteSets, TLC

VARIABLES
    pc,             \* position of the operation under way
    code,           \* the snippet handed to formatJava
    indentSize,     \* formatJava's indentSize
    initialIndent,  \* formatJava's initialIndent
    out,            \* the string the last operation returned
    prev,           \* the string returned by the formatting before the last
    level,          \* formatJava's local `indent` when its loop ended
    err,            \* the exception the last operation raised, "" when none
    glass,          \* the Class (accessor, name) the builder is generated for
    fields,         \* the list of Field (type, name) the builder is generated from
    view,           \* the text of the buffer of the view
    sel,            \* the selection of the view: its regions <<begin, end>>
    selectedText,   \* the text the fields are extracted from
    lines           \* the lines selectedText was put together from

vars == <<pc, code, indentSize, initialIndent, out, prev, level, err,
          glass, fields, view, sel, selectedText, lines>>

\* The variables of the command on a view, unused by the pure functions.
editor == <<view, sel, selectedText, lines>>

(***************************************************************************)
(* Bounds of the model.                                                    *)
(***************************************************************************)
MaxCodeLen == 4
MaxIndentSize == 2
MaxInitialIndent == 1
MaxFields == 2
MaxLines == 3
MaxMembers == 2
MaxSelections == 2

(***************************************************************************)
(* Characters and generic sequence helpers.                                *)
(***************************************************************************)
NL == "\n"
SP == " "

Indices(s) == [i \in 1..Len(s) |-> i]

\* The subsequence of s at the (ascending) indices idx.
Pick(s, idx) == [k \in 1..Len(idx) |-> s[idx[k]]]

\* s has the literal lit at index p.
HasAt(s, p, lit) ==
    /\ p >= 1
    /\ p + Len(lit) - 1 <= Len(s)
    /\ \A k \in 1..Len(lit) : s[p + k - 1] = lit[k]

\* First index of the maximal run of spaces that ends right before index i
\* (i itself when s[i-1] is not a space).
SpaceRunStart(s, i) ==
    LET d == CHOOSE d \in 0..(i - 1) :
                 /\ (d = i - 1 \/ s[i - 1 - d] # SP)
                 /\ \A k \in 1..d : s[i - k] = SP
    IN  i - d

RECURSIVE JoinRange(_, _, _)
JoinRange(toks, lo, hi) ==
    IF lo > hi THEN <<>>
    ELSE IF lo = hi THEN toks[lo]
    ELSE LET mid == (lo + hi) \div 2
         IN  JoinRange(toks, lo, mid) \o JoinRange(toks, mid + 1, hi)

\* ''.join(toks)
Join(toks) == JoinRange(toks, 1, Len(toks))

(***************************************************************************)
(* sanitizeJava: re.sub(r' +', ' ', re.sub('\n *', '', code))              *)
(***************************************************************************)
\* re.sub('\n *', '', s): every newline goes, with the spaces that follow it.
StripNewlines(s) ==
    LET Keep(i) ==
            /\ s[i] # NL
            /\ ~ (s[i] = SP /\ LET r == SpaceRunStart(s, i)
                               IN  r > 1 /\ s[r - 1] = NL)
    IN  Pick(s, SelectSeq(Indices(s), Keep))

\* re.sub(r' +', ' ', s): every run of spaces becomes one space.
CollapseSpaces(s) ==
    LET Keep(i) == ~ (s[i] = SP /\ i > 1 /\ s[i - 1] = SP)
    IN  Pick(s, SelectSeq(Indices(s), Keep))

\* sanitizeJava removing the newlines without the spaces that follow them.
sanitizeJavaKeepIndent(c) ==
    CollapseSpaces(SelectSeq(c, LAMBDA ch : ch # NL))

sanitizeJava(c) == CollapseSpaces(StripNewlines(c))

(***************************************************************************)
(* indentation: ''.join(' ' * indent * indentSize); a negative product     *)
(* gives the empty string in Python.                                       *)
(***************************************************************************)
indentation(indent, size) ==
    IF indent * size > 0 THEN [i \in 1..(indent * size) |-> SP] ELSE <<>>

(***************************************************************************)
(* removeMarkers                                                           *)
(***************************************************************************)
MarkerPad == <<"+", "+", "+", ";">>
MarkerCut == <<"-", "-", "-", ";">>

\* re.sub(pre + ' +' + lit, '', s) for two literals pre and lit, lit ending
\* in a character that is neither a space nor in pre: the matches are the
\* occurrences of lit that follow a run of one or more spaces that follows
\* pre, each with that run and pre; they cannot overlap.
RemoveSpaced(s, pre, lit) ==
    LET Hit(q) ==
            /\ HasAt(s, q, lit)
            /\ SpaceRunStart(s, q) < q
            /\ HasAt(s, SpaceRunStart(s, q) - Len(pre), pre)
        hits == SelectSeq(Indices(s), Hit)
        Matched(i) == \E h \in 1..Len(hits) :
                          /\ SpaceRunStart(s, hits[h]) - Len(pre) <= i
                          /\ i <= hits[h] + Len(lit) - 1
    IN  Pick(s, SelectSeq(Indices(s), LAMBDA i : ~ Matched(i)))

\* removeMarkers without its second substitution.
removeMarkersPadOnly(c) == RemoveSpaced(c, <<>>, MarkerPad)

removeMarkers(c) ==
    LET paddedLines == RemoveSpaced(c, <<>>, MarkerPad)
        removedLines == RemoveSpaced(paddedLines, <<NL, NL>>, MarkerCut)
    IN  removedLines

(***************************************************************************)
(* formatJava                                                              *)
(***************************************************************************)
Delimiters == {"{", "}", ";"}

\* re.split(r'([\{\};])', s): the texts between the delimiters (odd places)
\* and the delimiters themselves (even places).
Split(s) ==
    LET d == SelectSeq(Indices(s), LAMBDA i : s[i] \in Delimiters)
        m == Len(d)
        lo(j) == IF j = 1 THEN 1 ELSE d[j - 1] + 1
        hi(j) == IF j = m + 1 THEN Len(s) ELSE d[j] - 1
    IN  [k \in 1..(2 * m + 1) |->
            IF k % 2 = 1 THEN SubSeq(s, lo((k + 1) \div 2), hi((k + 1) \div 2))
            ELSE <<s[d[k \div 2]]>>]

\* list.pop(): the list without its last element.
Pop(l) == SubSeq(l, 1, Len(l) - 1)

\* `token is '{'`: the identity of two one-character strings.  CPython keeps
\* one shared object per one-character string and re.split returns it for
\* every token cut out of a longer string, so identity is equality there.
\* A token that is the whole sanitized string is that string object itself,
\* which is the shared one or not depending on how the string was built
\* (`interned`): both outcomes are possible.
Is(token, literal, interned) == token = literal /\ interned

\* FormatToken with the closing brace indented before the level is lowered.
FormatTokenLate(st, token, size, interned) ==
    IF token \in {<<"{">>, <<"}">>, <<";">>}
    THEN LET opened == IF Is(token, <<"{">>, interned)
                       THEN st.indent + 1 ELSE st.indent
             closing == ~ Is(token, <<"{">>, interned)
                            /\ Is(token, <<"}">>, interned)
             indent == IF closing THEN opened - 1 ELSE opened
             popped == IF closing
                       THEN Pop(Pop(st.indentedTokens))
                                \o <<indentation(opened, size)>>
                       ELSE st.indentedTokens
             extended == popped \o <<token, <<NL>>>>
         IN  [indent |-> indent,
              indentedTokens |->
                  IF Is(token, <<"}">>, interned)
                  THEN extended \o << <<NL>> >> ELSE extended]
    ELSE [indent |-> st.indent,
          indentedTokens |->
              st.indentedTokens \o <<indentation(st.indent, size), token>>]

\* One iteration of the loop `for token in tokens`, on the state
\* st = [indent, indentedTokens].
FormatToken(st, token, size, interned) ==
    IF token \in {<<"{">>, <<"}">>, <<";">>}
    THEN LET opened == IF Is(token, <<"{">>, interned)
                       THEN st.indent + 1 ELSE st.indent
             closing == ~ Is(token, <<"{">>, interned)
                            /\ Is(token, <<"}">>, interned)
             indent == IF closing THEN opened - 1 ELSE opened
             popped == IF closing
                       THEN Pop(Pop(st.indentedTokens))
                                \o <<indentation(indent, size)>>
                       ELSE st.indentedTokens
             extended == popped \o <<token, <<NL>>>>
         IN  [indent |-> indent,
              indentedTokens |->
                  IF Is(token, <<"}">>, interned)
                  THEN extended \o << <<NL>> >> ELSE extended]
    ELSE [indent |-> st.indent,
          indentedTokens |->
              st.indentedTokens \o <<indentation(st.indent, size), token>>]

\* The loop `for token in tokens` over tokens[lo..hi], from the state st: the
\* iterations of the first half, then those of the second half from the state
\* the first half ended in.
RECURSIVE FormatLoop(_, _, _, _, _, _)
FormatLoop(tokens, lo, hi, st, size, interned) ==
    IF lo > hi THEN st
    ELSE IF lo = hi THEN FormatToken(st, tokens[lo], size, interned)
    ELSE LET mid == (lo + hi) \div 2
         IN  CHOOSE ended \in
                 {FormatLoop(tokens, mid + 1, hi, half, size, interned) :
                     half \in {FormatLoop(tokens, lo, mid, st, size, interned)}} :
                 TRUE

\* The state of formatJava when its loop has ended.  `shared` tells whether a
\* sanitized string of one character is CPython's shared object.
FormatState(size, initial, c, shared) ==
    LET sanitized == sanitizeJava(c)
        tokens == Split(sanitized)
    IN  FormatLoop(tokens, 1, Len(tokens),
                   [indent |-> initial, indentedTokens |-> <<>>],
                   size, Len(sanitized) # 1 \/ shared)

\* The three final pops raise IndexError when the list is shorter.
FinalPopsRaise(st) == Len(st.indentedTokens) < 3

\* The string formatJava returns from the state st its loop ended in.
FormatResult(st) == removeMarkers(Join(Pop(Pop(Pop(st.indentedTokens)))))

formatJavaRaises(size, initial, c, shared) ==
    FinalPopsRaise(FormatState(size, initial, c, shared))

formatJava(size, initial, c, shared) ==
    FormatResult(FormatState(size, initial, c, shared))

(***************************************************************************)
(* The string templates: fieldDeclaration, capitalize, assignment, setter, *)
(* buildBuilder.                                                           *)
(***************************************************************************)
\* The literal texts of the templates.
PRIVATE_ == <<"p", "r", "i", "v", "a", "t", "e", " ">>
THIS_DOT == <<"t", "h", "i", "s", ".">>
SP_BUILDER_SET == <<" ", "B", "u", "i", "l", "d", "e", "r", " ", "s", "e", "t">>
SP_CLASS_BUILDER == <<" ", "c", "l", "a", "s", "s", " ", "B", "u", "i", "l", "d", "e", "r">>
SP_BUILD == <<" ", "b", "u", "i", "l", "d", "(", ")">>
RETURN_NEW_ == <<"r", "e", "t", "u", "r", "n", " ", "n", "e", "w", " ">>

Spaces(n) == [i \in 1..n |-> SP]

LowerCase == <<"a", "b", "c", "d", "e", "f", "g", "h", "i", "j", "k", "l", "m",
               "n", "o", "p", "q", "r", "s", "t", "u", "v", "w", "x", "y", "z">>
UpperCase == <<"A", "B", "C", "D", "E", "F", "G", "H", "I", "J", "K", "L", "M",
               "N", "O", "P", "Q", "R", "S", "T", "U", "V", "W", "X", "Y", "Z">>

\* str.upper() of one character.
Upper(c) ==
    IF \E i \in 1..Len(LowerCase) : LowerCase[i] = c
    THEN UpperCase[CHOOSE i \in 1..Len(LowerCase) : LowerCase[i] = c]
    ELSE c

\* sep.join(strs)
RECURSIVE JoinWith(_, _)
JoinWith(sep, strs) ==
    IF strs = <<>> THEN <<>>
    ELSE IF Len(strs) = 1 THEN strs[1]
    ELSE JoinWith(sep, Pop(strs)) \o sep \o strs[Len(strs)]

Class(accessor, name) == [accessor |-> accessor, name |-> name]
Field(type, name) == [type |-> type, name |-> name]

\* The value of `glass` while no class is known.
NoGlass == Class(<<>>, <<>>)

\* No view is involved.
NoEditor == view = <<>> /\ sel = <<>> /\ selectedText = <<>> /\ lines = <<>>

\* "private %(type)s %(name)s;"
fieldDeclaration(field) ==
    PRIVATE_ \o field.type \o <<SP>> \o field.name \o <<";">>

\* str[:1].upper() + str[1:]
capitalize(str) ==
    [i \in 1..Len(str) |-> IF i = 1 THEN Upper(str[i]) ELSE str[i]]

\* "this.%(name)s = %(name)s;"
assignment(field) ==
    THIS_DOT \o field.name \o <<SP, "=", SP>> \o field.name \o <<";">>

\* The template of setter, filled with `% dict(...)`.
SetterTemplate(accessor, capitalizedName, assign, type, name) ==
    <<NL>> \o Spaces(12) \o accessor \o SP_BUILDER_SET \o capitalizedName
        \o <<"(">> \o type \o <<SP>> \o name \o <<")", SP, "{">>
    \o <<NL>> \o Spaces(16) \o assign
    \o <<NL>> \o Spaces(12) \o <<"}">>
    \o <<NL>> \o Spaces(8)

\* setter(accessor)(field)
setter(accessor, field) ==
    SetterTemplate(accessor, capitalize(field.name), assignment(field),
                   field.type, field.name)

\* The template of buildBuilder, filled with `% dict(...)`.
BuilderTemplate(accessor, builderFields, setters, glassName, fieldNames) ==
    <<NL>> \o Spaces(8) \o MarkerPad
    \o <<NL>> \o Spaces(8) \o accessor \o SP_CLASS_BUILDER \o <<SP, "{">>
    \o <<NL>> \o Spaces(12) \o builderFields
    \o <<NL>> \o Spaces(12) \o MarkerPad
    \o <<NL>> \o Spaces(12) \o setters
    \o <<NL>> \o Spaces(12) \o accessor \o <<SP>> \o glassName
        \o SP_BUILD \o <<SP, "{">>
    \o <<NL>> \o Spaces(16) \o RETURN_NEW_ \o glassName
        \o <<"(">> \o fieldNames \o <<")", ";">>
    \o <<NL>> \o Spaces(12) \o <<"}">>
    \o <<NL>> \o Spaces(12) \o MarkerCut
    \o <<NL>> \o Spaces(8) \o <<"}">>
    \o <<NL>> \o Spaces(4)

\* Reverse of a list.
Reversed(list) == [i \in 1..Len(list) |-> list[Len(list) + 1 - i]]

\* buildBuilder passing the constructor's arguments last field first.
buildBuilderReversedArgs(g, fs) ==
    BuilderTemplate(
        g.accessor,
        JoinWith(<<NL>>, [i \in 1..Len(fs) |-> fieldDeclaration(fs[i])]),
        JoinWith(<<NL>>, [i \in 1..Len(fs) |-> setter(g.accessor, fs[i])]),
        g.name,
        JoinWith(<<",", SP>>, [i \in 1..Len(fs) |-> Reversed(fs)[i].name]))

buildBuilder(g, fs) ==
    BuilderTemplate(
        g.accessor,
        JoinWith(<<NL>>, [i \in 1..Len(fs) |-> fieldDeclaration(fs[i])]),
        JoinWith(<<NL>>, [i \in 1..Len(fs) |-> setter(g.accessor, fs[i])]),
        g.name,
        JoinWith(<<",", SP>>, [i \in 1..Len(fs) |-> fs[i].name]))

(***************************************************************************)
(* The regular expressions: getGlass, inferIndentSize, findEndOfGlass,     *)
(* fieldsIn.  Each is modelled by the match Python's backtracking finds.   *)
(***************************************************************************)
Digits == {"0", "1", "2", "3", "4", "5", "6", "7", "8", "9"}

\* \w
WordChars ==
    {LowerCase[i] : i \in 1..Len(LowerCase)}
        \cup {UpperCase[i] : i \in 1..Len(UpperCase)} \cup Digits \cup {"_"}

\* \s (the vertical tab, which has no escape here, is left out)
WhiteChars == {SP, NL, "\t", "\r", "\f"}

Min(S) == CHOOSE x \in S : \A y \in S : x <= y

\* The index after the maximal run of characters of C that starts at p: where
\* a greedy C* or C+ ends (the run is empty when the result is p).
RunEnd(s, p, C) ==
    CHOOSE e \in p..(Len(s) + 1) :
        /\ (e = Len(s) + 1 \/ s[e] \notin C)
        /\ \A k \in p..(e - 1) : s[k] \in C

\* lit\s+ at p: the index after it, 0 when it does not match.
AfterWord(s, p, lit) ==
    IF HasAt(s, p, lit) /\ RunEnd(s, p + Len(lit), WhiteChars) > p + Len(lit)
    THEN RunEnd(s, p + Len(lit), WhiteChars)
    ELSE 0

KW_CLASS == <<"c", "l", "a", "s", "s">>
KW_FINAL == <<"f", "i", "n", "a", "l">>
\* accessorPattern: (private | protected | public)
AccessorWords == {<<"p", "r", "i", "v", "a", "t", "e">>,
                  <<"p", "r", "o", "t", "e", "c", "t", "e", "d">>,
                  <<"p", "u", "b", "l", "i", "c">>}

\* class\s+(?P<name>\w+) at q.
ClassRest(s, q) ==
    LET w == AfterWord(s, q, KW_CLASS)
        n == IF w > 0 THEN RunEnd(s, w, WordChars) ELSE 0
    IN  [ok |-> w > 0 /\ n > w,
         name |-> IF w > 0 THEN SubSeq(s, w, n - 1) ELSE <<>>,
         end |-> n]

\* ((?P<accessor>\w+)\s+)?class\s+(?P<name>\w+) at p: the alternative with
\* the optional group first, then the one without it.  A shorter \w+ or \s+
\* cannot match, since what follows it does not start with such a character.
ClassMatchAt(s, p) ==
    LET w == RunEnd(s, p, WordChars)
        a == IF w > p /\ RunEnd(s, w, WhiteChars) > w
             THEN RunEnd(s, w, WhiteChars) ELSE 0
    IN  IF a > 0 /\ ClassRest(s, a).ok
        THEN [ok |-> TRUE, accessor |-> SubSeq(s, p, w - 1),
              name |-> ClassRest(s, a).name, end |-> ClassRest(s, a).end]
        ELSE [ok |-> ClassRest(s, p).ok, accessor |-> <<>>,
              name |-> ClassRest(s, p).name, end |-> ClassRest(s, p).end]

\* The start of the leftmost match of the class pattern in s, 0 when none.
ClassSearch(s) ==
    LET starts == {p \in 1..Len(s) : ClassMatchAt(s, p).ok}
    IN  IF starts = {} THEN 0 ELSE Min(starts)

\* re.search(...) is None, and None.groupdict() raises AttributeError.
getGlassRaises(text) == ClassSearch(text) = 0

getGlass(text) ==
    LET found == ClassMatchAt(text, ClassSearch(text))
    IN  Class(found.accessor, found.name)

\* re.search(r'\n( +)', text): the length of the first run of spaces that
\* follows a newline, len('  ') when there is none.
inferIndentSize(text) ==
    LET starts == {p \in 1..(Len(text) - 1) : text[p] = NL /\ text[p + 1] = SP}
    IN  IF starts = {} THEN 2
        ELSE RunEnd(text, Min(starts) + 1, {SP}) - (Min(starts) + 1)

\* The newlines at which r'\n( *}\s*)$' matches: spaces, a `}`, and nothing but
\* white space up to the end of the text.
EndOfGlassStarts(text) ==
    {p \in 1..Len(text) :
        /\ text[p] = NL
        /\ LET b == RunEnd(text, p + 1, {SP})
           IN  /\ b <= Len(text)
               /\ text[b] = "}"
               /\ RunEnd(text, b + 1, WhiteChars) = Len(text) + 1}

\* re.search(...) is None, and None.start(1) raises AttributeError.
findEndOfGlassRaises(text) == EndOfGlassStarts(text) = {}

\* .start(1): the offset (from 0) of the character after the newline.
findEndOfGlass(text) == Min(EndOfGlassStarts(text))

\* (?P<type>(\w|\.)+)\s+(?P<name>\w+)\s*(;|=) at q.  Every run is maximal: what
\* follows a shorter one does not match.
FieldRest(s, q) ==
    LET t == RunEnd(s, q, WordChars \cup {"."})
        w == RunEnd(s, t, WhiteChars)
        n == RunEnd(s, w, WordChars)
        e == RunEnd(s, n, WhiteChars)
    IN  [ok |-> t > q /\ w > t /\ n > w /\ e <= Len(s) /\ s[e] \in {";", "="},
         type |-> SubSeq(s, q, t - 1),
         name |-> SubSeq(s, w, n - 1),
         end |-> e + 1]

\* ((private|protected|public)\s+)? at p: the index after it, 0 when the
\* group does not match.
AccessorEnd(s, p) ==
    IF \E a \in AccessorWords : AfterWord(s, p, a) > 0
    THEN AfterWord(s, p, CHOOSE a \in AccessorWords : AfterWord(s, p, a) > 0)
    ELSE 0

\* The places where the type may start for a match that starts at p, in the
\* order backtracking tries them: after \s*, each optional group is tried
\* present before absent.
TypeStarts(s, p) ==
    LET s0 == RunEnd(s, p, WhiteChars)
        WithFinal(q) == IF AfterWord(s, q, KW_FINAL) > 0
                        THEN <<AfterWord(s, q, KW_FINAL), q>> ELSE <<q>>
    IN  (IF AccessorEnd(s, s0) > 0 THEN WithFinal(AccessorEnd(s, s0)) ELSE <<>>)
            \o WithFinal(s0)

\* The match of the pattern of fieldsIn that starts at p (^ with re.M: the
\* start of the text or the character after a newline).
FieldMatchAt(s, p) ==
    LET starts == TypeStarts(s, p)
        good == {i \in 1..Len(starts) : FieldRest(s, starts[i]).ok}
    IN  IF (p = 1 \/ s[p - 1] = NL) /\ good # {}
        THEN FieldRest(s, starts[Min(good)])
        ELSE [ok |-> FALSE, type |-> <<>>, name |-> <<>>, end |-> 0]

\* re.finditer from pos on: the leftmost match, then those after its end.
RECURSIVE FindFields(_, _)
FindFields(s, pos) ==
    LET starts == {p \in pos..Len(s) : FieldMatchAt(s, p).ok}
    IN  IF starts = {} THEN <<>>
        ELSE LET m == FieldMatchAt(s, Min(starts))
             IN  <<Field(m.type, m.name)>> \o FindFields(s, m.end)

fieldsIn(text) == FindFields(text, 1)

(***************************************************************************)
(* The formatter on arbitrary snippets.                                    *)
(***************************************************************************)
SnippetChars == {"a", SP, NL, "{", "}", ";"}

Snippets == UNION {[1..n -> SnippetChars] : n \in 0..MaxCodeLen}

InitFormat ==
    /\ pc = "snippet"
    /\ code \in Snippets
    /\ indentSize \in 1..MaxIndentSize
    /\ initialIndent \in 0..MaxInitialIndent
    /\ out = <<>>
    /\ prev = <<>>
    /\ level = initialIndent
    /\ err = ""
    /\ glass = NoGlass
    /\ fields = <<>>
    /\ NoEditor

\* out = formatJava(indentSize, initialIndent, code)
Format ==
    /\ pc \in {"snippet", "built"}
    /\ \E shared \in BOOLEAN :
        LET st == FormatState(indentSize, initialIndent, code, shared)
        IN  IF FinalPopsRaise(st)
            THEN /\ err' = "IndexError"
                 /\ pc' = "failed"
                 /\ UNCHANGED <<out, level>>
            ELSE /\ out' = FormatResult(st)
                 /\ level' = st.indent
                 /\ pc' = "formatted"
                 /\ err' = ""
    /\ UNCHANGED <<code, indentSize, initialIndent, prev, glass, fields, editor>>

\* out = formatJava(indentSize, initialIndent, out): the output formatted again.
Reformat ==
    /\ pc = "formatted"
    /\ \E shared \in BOOLEAN :
        LET st == FormatState(indentSize, initialIndent, out, shared)
        IN  IF FinalPopsRaise(st)
            THEN /\ err' = "IndexError"
                 /\ pc' = "refailed"
                 /\ UNCHANGED <<out, prev, level>>
            ELSE /\ out' = FormatResult(st)
                 /\ prev' = out
                 /\ level' = st.indent
                 /\ pc' = "reformatted"
                 /\ err' = ""
    /\ UNCHANGED <<code, indentSize, initialIndent, glass, fields, editor>>

NextFormat == Format \/ Reformat

SpecFormat == InitFormat /\ [][NextFormat]_vars

(***************************************************************************)
(* The builder generated for a class and a list of fields.                 *)
(***************************************************************************)
Accessors == {<<>>, <<"p", "u", "b", "l", "i", "c">>, <<"p", "r", "i", "v", "a", "t", "e">>}
GlassNames == {<<"F", "o", "o">>, <<"B", "a", "r">>}
FieldChoices == {Field(<<"S", "t", "r", "i", "n", "g">>, <<"n", "a", "m", "e">>), Field(<<"i", "n", "t">>, <<"a", "g", "e">>), Field(<<"l", "o", "n", "g">>, <<"u", "s", "e", "r", "I", "d">>)}

FieldLists == UNION {[1..n -> FieldChoices] : n \in 0..MaxFields}

InitBuilder ==
    /\ pc = "input"
    /\ glass \in {Class(a, n) : a \in Accessors, n \in GlassNames}
    /\ fields \in FieldLists
    /\ indentSize \in 1..MaxIndentSize
    /\ initialIndent \in 0..MaxInitialIndent
    /\ code = <<>>
    /\ out = <<>>
    /\ prev = <<>>
    /\ level = initialIndent
    /\ err = ""
    /\ NoEditor

\* code = buildBuilder(glass, fields)
Build ==
    /\ pc = "input"
    /\ code' = buildBuilder(glass, fields)
    /\ pc' = "built"
    /\ UNCHANGED <<indentSize, initialIndent, out, prev, level, err, glass, fields,
                   editor>>

NextBuilder == Build \/ Format

SpecBuilder == InitBuilder /\ [][NextBuilder]_vars

(***************************************************************************)
(* fieldsIn on texts made of one-line field declarations and other lines.  *)
(***************************************************************************)
\* The lines a text is made of: each with the field it declares, if any.
LineChoices == {
    [text |-> <<"p", "r", "i", "v", "a", "t", "e", " ", "i", "n", "t", " ", "a", ";">>,
     declares |-> <<Field(<<"i", "n", "t">>, <<"a">>)>>],
    [text |-> <<"S", "t", "r", "i", "n", "g", " ", "b", " ", "=", " ", "x", ";">>,
     declares |-> <<Field(<<"S", "t", "r", "i", "n", "g">>, <<"b">>)>>],
    [text |-> <<"p", "r", "i", "v", "a", "t", "e", " ", "t", "r", "a", "n", "s", "i", "e", "n", "t", " ", "i", "n", "t", " ", "c", ";">>,
     declares |-> <<Field(<<"i", "n", "t">>, <<"c">>)>>],
    [text |-> <<"L", "i", "s", "t", "<", "S", "t", "r", "i", "n", "g", ">", " ", "d", ";">>,
     declares |-> <<Field(<<"L", "i", "s", "t", "<", "S", "t", "r", "i", "n", "g", ">">>, <<"d">>)>>],
    [text |-> <<"f", "i", "n", "a", "l", " ", "l", "o", "n", "g", " ", "$", "e", ";">>,
     declares |-> <<Field(<<"l", "o", "n", "g">>, <<"$", "e">>)>>],
    [text |-> <<>>,
     declares |-> <<>>],
    [text |-> <<"/", "/", " ", "n", "o", "t", "e">>,
     declares |-> <<>>],
    [text |-> <<"@", "I", "n", "j", "e", "c", "t">>,
     declares |-> <<>>]}

LineLists == UNION {[1..n -> LineChoices] : n \in 0..MaxLines}

TextOf(ls) == JoinWith(<<NL>>, [i \in 1..Len(ls) |-> ls[i].text])

InitFields ==
    /\ pc = "text"
    /\ lines \in LineLists
    /\ selectedText = TextOf(lines)
    /\ fields = <<>>
    /\ view = <<>>
    /\ sel = <<>>
    /\ glass = NoGlass
    /\ code = <<>>
    /\ indentSize = 0
    /\ initialIndent = 0
    /\ out = <<>>
    /\ prev = <<>>
    /\ level = 0
    /\ err = ""

\* fields = fieldsIn(selectedText)
Extract ==
    /\ pc = "text"
    /\ fields' = fieldsIn(selectedText)
    /\ pc' = "extracted"
    /\ UNCHANGED <<code, indentSize, initialIndent, out, prev, level, err, glass,
                   view, sel, selectedText, lines>>

NextFields == Extract

SpecFields == InitFields /\ [][NextFields]_vars

(***************************************************************************)
(* JavaxGenerateBuilderCommand.run on a view.                              *)
(***************************************************************************)
\* view.substr(region): regions hold offsets from 0, Region(-1, -1) is empty.
Substr(text, region) ==
    IF region[1] < 0 THEN <<>> ELSE SubSeq(text, region[1] + 1, region[2])

\* view.find(r"(\w+\s+)?class\s+\w+", 0): the region of the leftmost match,
\* Region(-1, -1) when there is none.
find(text) ==
    IF ClassSearch(text) = 0 THEN <<-1, -1>>
    ELSE <<ClassSearch(text) - 1, ClassMatchAt(text, ClassSearch(text)).end - 1>>

\* view.insert(edit, point, string)
Insert(text, point, string) ==
    SubSeq(text, 1, point) \o string \o SubSeq(text, point + 1, Len(text))

\* ''.join([view.substr(selection) for selection in selections])
SelectedText(text, selections) ==
    Join([i \in 1..Len(selections) |-> Substr(text, selections[i])])

\* The buffers: a first line, up to MaxMembers member lines and a last line.
FirstLines == {<<"p", "u", "b", "l", "i", "c", " ", "c", "l", "a", "s", "s", " ", "F", "o", "o", " ", "{">>,
               <<"c", "l", "a", "s", "s", " ", "F", "o", "o", " ", "{">>,
               <<"p", "u", "b", "l", "i", "c", " ", "f", "i", "n", "a", "l", " ", "c", "l", "a", "s", "s", " ", "F", "o", "o", " ", "{">>,
               <<"/", "/", " ", "n", "o", "t", "e", "s">>}
MemberLines == {<<" ", " ", "p", "r", "i", "v", "a", "t", "e", " ", "i", "n", "t", " ", "a", ";">>,
                <<" ", " ", "S", "t", "r", "i", "n", "g", " ", "b", " ", "=", " ", "x", ";">>,
                <<" ", " ", "p", "r", "i", "v", "a", "t", "e", " ", "c", "l", "a", "s", "s", " ", "B", "a", "r", " ", "{", "}">>}
LastLines == {<<"}">>, <<"}", " ", "/", "/", " ", "F", "o", "o">>}

Buffers ==
    {JoinWith(<<NL>>, <<first>> \o members \o <<last>>) :
        first \in FirstLines,
        members \in UNION {[1..n -> MemberLines] : n \in 0..MaxMembers},
        last \in LastLines}

\* The regions that cover whole lines of a text, without the last newline.
LineRegions(text) ==
    LET starts == {0} \cup {p \in 1..Len(text) : text[p] = NL}
        ends == {p - 1 : p \in {r \in 1..Len(text) : text[r] = NL}}
                    \cup {Len(text)}
    IN  {<<a, b>> : a \in starts, b \in ends} \cap
            {r \in (0..Len(text)) \X (0..Len(text)) : r[1] <= r[2]}

\* The selections: up to MaxSelections regions, in order, disjoint.
Selections(text) ==
    {rs \in UNION {[1..n -> LineRegions(text)] : n \in 0..MaxSelections} :
        \A i \in 1..(Len(rs) - 1) : rs[i][2] < rs[i + 1][1]}

InitRun ==
    /\ pc = "ready"
    /\ view \in Buffers
    /\ sel \in Selections(view)
    /\ selectedText = <<>>
    /\ lines = <<>>
    /\ glass = NoGlass
    /\ fields = <<>>
    /\ code = <<>>
    /\ indentSize = 0
    /\ initialIndent = 1
    /\ out = <<>>
    /\ prev = <<>>
    /\ level = 1
    /\ err = ""

\* JavaxGenerateBuilderCommand.run, with its locals glass, selectedText and
\* indentSize; code and out are the values of buildBuilder and formatJava.
\* view.show_at_center moves the viewport only.
Run ==
    /\ pc = "ready"
    /\ UNCHANGED <<sel, lines, initialIndent, prev>>
    /\ IF getGlassRaises(Substr(view, find(view)))
       THEN /\ err' = "AttributeError"
            /\ pc' = "failed"
            /\ UNCHANGED <<glass, selectedText, indentSize, fields, code, out,
                           level, view>>
       ELSE /\ glass' = getGlass(Substr(view, find(view)))
            /\ selectedText' = SelectedText(view, sel)
            /\ indentSize' = inferIndentSize(selectedText')
            /\ IF findEndOfGlassRaises(view)
               THEN /\ err' = "AttributeError"
                    /\ pc' = "failed"
                    /\ UNCHANGED <<fields, code, out, level, view>>
               ELSE /\ fields' = fieldsIn(selectedText')
                    /\ code' = buildBuilder(glass', fields')
                    /\ \E shared \in BOOLEAN :
                        LET st == FormatState(indentSize', 1, code', shared)
                        IN  IF FinalPopsRaise(st)
                            THEN /\ err' = "IndexError"
                                 /\ pc' = "failed"
                                 /\ UNCHANGED <<out, level, view>>
                            ELSE /\ out' = FormatResult(st)
                                 /\ level' = st.indent
                                 /\ view' = Insert(view, findEndOfGlass(view), out')
                                 /\ err' = ""
                                 /\ pc' = "done"

NextRun == Run

SpecRun == InitRun /\ [][NextRun]_vars

(***************************************************************************)
(* Observations of a snippet and of a formatted string.                    *)
(***************************************************************************)
\* The number of indices i <= n of s with s[i] = ch.
CountUpTo(s, n, ch) == Cardinality({i \in 1..n : s[i] = ch})

\* The braces of s are properly nested.
Nested(s) ==
    /\ \A n \in 1..Len(s) : CountUpTo(s, n, "}") <= CountUpTo(s, n, "{")
    /\ CountUpTo(s, Len(s), "}") = CountUpTo(s, Len(s), "{")

\* The lines of s: the texts between its newlines.
Lines(s) ==
    LET d == SelectSeq(Indices(s), LAMBDA i : s[i] = NL)
        m == Len(d)
    IN  [j \in 1..(m + 1) |->
            SubSeq(s, IF j = 1 THEN 1 ELSE d[j - 1] + 1,
                      IF j = m + 1 THEN Len(s) ELSE d[j] - 1)]

\* The number of spaces a line starts with.
LeadingSpaces(line) ==
    CHOOSE n \in 0..Len(line) :
        /\ \A k \in 1..n : line[k] = SP
        /\ (n = Len(line) \/ line[n + 1] # SP)

Blank(line) == LeadingSpaces(line) = Len(line)

Has(line, ch) == \E k \in 1..Len(line) : line[k] = ch

\* The nesting level of line j of ls by the braces written so far: `initial`
\* plus the lines before j with a `{`, minus the lines up to j with a `}`.
LineLevel(ls, j, initial) ==
    initial + Cardinality({i \in 1..(j - 1) : Has(ls[i], "{")})
            - Cardinality({i \in 1..j : Has(ls[i], "}")})

\* Every non-blank line of s starts with exactly size * level spaces, and no
\* level is negative.
Indented(s, size, initial) ==
    LET ls == Lines(s)
    IN  \A j \in 1..Len(ls) :
            Blank(ls[j]) \/
                /\ LineLevel(ls, j, initial) >= 0
                /\ LeadingSpaces(ls[j]) = size * LineLevel(ls, j, initial)

\* No text between the delimiters of the sanitized snippet starts with a space.
NoSpacedText(c) ==
    LET tokens == Split(sanitizeJava(c))
    IN  \A k \in 1..Len(tokens) :
            k % 2 = 1 /\ tokens[k] # <<>> => tokens[k][1] # SP

(***************************************************************************)
(* Claims about formatJava, checked under SpecFormat.                      *)
(***************************************************************************)
\* C7: a snippet whose braces are unbalanced makes formatJava fail with a
\* FormatError instead of returning a string.
C7_UnbalancedRaisesFormatError ==
    pc \in {"formatted", "failed"} /\ ~ Nested(code)
        => pc = "failed" /\ err = "FormatError"

\* C8: formatting is idempotent: formatting the output of formatJava on a
\* brace-balanced snippet again, with the same indentSize and initialIndent,
\* returns the same string.
C8_Idempotent ==
    /\ pc = "reformatted" /\ Nested(code) => out = prev
    /\ pc = "refailed" => ~ Nested(code)

Tokens(c) == Split(sanitizeJava(c))

\* The texts of c that are followed by the delimiter d, in the order of the
\* snippet.
TextsBefore(c, d) ==
    LET tokens == Tokens(c)
        at == SelectSeq(Indices(tokens),
                        LAMBDA k : /\ k % 2 = 1
                                   /\ k < Len(tokens)
                                   /\ tokens[k + 1] = <<d>>)
    IN  Pick(tokens, at)

\* The first index at which lit occurs in t, 0 when it does not.
Find(t, lit) ==
    IF \E p \in 1..Len(t) : HasAt(t, p, lit)
    THEN CHOOSE p \in 1..Len(t) :
             HasAt(t, p, lit) /\ \A r \in 1..(p - 1) : ~ HasAt(t, r, lit)
    ELSE 0

\* The text of t after the first `from` and before the first `to` after it.
Between(t, from, to) ==
    LET a == Find(t, from) + Len(from)
        rest == SubSeq(t, a, Len(t))
    IN  SubSeq(rest, 1, Find(rest, to) - 1)

\* The text of t after its last space.
LastWord(t) ==
    LET sp == {i \in 1..Len(t) : t[i] = SP}
        last == IF sp = {} THEN 0 ELSE CHOOSE i \in sp : \A r \in sp : r <= i
    IN  SubSeq(t, last + 1, Len(t))

\* s.split(sep) for a separator of two characters, [] for the empty string.
RECURSIVE SplitList(_, _)
SplitList(t, sep) ==
    IF t = <<>> THEN <<>>
    ELSE IF Find(t, sep) = 0 THEN <<t>>
    ELSE <<SubSeq(t, 1, Find(t, sep) - 1)>>
             \o SplitList(SubSeq(t, Find(t, sep) + Len(sep), Len(t)), sep)

IsDeclaration(t) == HasAt(t, 1, PRIVATE_)
IsSetterHeader(t) == Find(t, <<"B", "u", "i", "l", "d", "e", "r", SP, "s", "e", "t">>) > 0
IsNewCall(t) == HasAt(t, 1, RETURN_NEW_)

\* The statements `private <type> <name>;` of the snippet.
Declarations(c) == SelectSeq(TextsBefore(c, ";"), IsDeclaration)
\* The headers `... Builder set<Name>(<type> <name>) {` of the snippet.
SetterHeaders(c) == SelectSeq(TextsBefore(c, "{"), IsSetterHeader)
\* The statements `return new <Class>(<arguments>);` of the snippet.
NewCalls(c) == SelectSeq(TextsBefore(c, ";"), IsNewCall)

DeclaredNames(c) ==
    LET ds == Declarations(c)
    IN  [i \in 1..Len(ds) |-> LastWord(ds[i])]
SetterNames(c) ==
    LET hs == SetterHeaders(c)
    IN  [i \in 1..Len(hs) |-> Between(hs[i], <<SP, "s", "e", "t">>, <<"(">>)]
SetterParameters(c) ==
    LET hs == SetterHeaders(c)
    IN  [i \in 1..Len(hs) |-> Between(hs[i], <<"(">>, <<")">>)]
NewArguments(c) ==
    SplitList(Between(NewCalls(c)[1], <<"(">>, <<")">>), <<",", SP>>)

NamesOf(fs) == [i \in 1..Len(fs) |-> fs[i].name]

(***************************************************************************)
(* Claims about buildBuilder, checked under SpecBuilder.                   *)
(***************************************************************************)
\* C1: the builder snippet lists the private field declarations, the setters
\* and the arguments of the `new <Class>(...)` call each in the order of the
\* supplied field list, one entry per supplied field.
C1_FieldOrderKept ==
    pc = "built" =>
        /\ DeclaredNames(code) = NamesOf(fields)
        /\ SetterNames(code) = [i \in 1..Len(fields) |-> capitalize(fields[i].name)]
        /\ Len(NewCalls(code)) = 1
        /\ NewArguments(code) = NamesOf(fields)

\* C1's case: a builder built from two fields of different names.
C1_Witness ==
    /\ pc = "built"
    /\ Len(fields) = 2
    /\ fields[1].name # fields[2].name
    /\ NewArguments(code) = <<fields[1].name, fields[2].name>>
\* The statements of the block that the i-th setter header of c opens.
SetterBody(c, i) ==
    LET tokens == Tokens(c)
        headers == SelectSeq(Indices(tokens),
                             LAMBDA k : /\ k % 2 = 1
                                        /\ k < Len(tokens)
                                        /\ tokens[k + 1] = <<"{">>
                                        /\ IsSetterHeader(tokens[k]))
        open == headers[i] + 1
        close == CHOOSE k \in open..Len(tokens) :
                     /\ tokens[k] = <<"}">>
                     /\ \A r \in open..(k - 1) : tokens[r] # <<"}">>
    IN  {tokens[k] : k \in {r \in open..close : r % 2 = 1}} \ {<<>>}

\* C2: every field has one setter named `set` + the name with its first
\* character uppercased, taking one parameter of the field's type, assigning
\* `this.<name> = <name>` and returning the builder instance.
C2_FluentSetters ==
    pc = "built" =>
        /\ Len(SetterHeaders(code)) = Len(fields)
        /\ \A i \in 1..Len(fields) :
            /\ SetterNames(code)[i] = capitalize(fields[i].name)
            /\ SetterParameters(code)[i]
                   = fields[i].type \o <<SP>> \o fields[i].name
            /\ THIS_DOT \o fields[i].name \o <<SP, "=", SP>> \o fields[i].name
                   \in SetterBody(code, i)
            /\ <<"r", "e", "t", "u", "r", "n", SP, "t", "h", "i", "s">>
                   \in SetterBody(code, i)

\* The modifier an accessor renders as: nothing for the empty accessor.
Modifier(accessor) == IF accessor = <<>> THEN <<>> ELSE accessor \o <<SP>>

\* C10: the Builder class and its build() method carry exactly the accessor of
\* the outer class; with the empty accessor the formatted lines are
\* `class Builder {` and `<Name> build() {` right after their indentation,
\* and formatting raises no error.
C10_AccessorCarried ==
    /\ pc # "failed"
    /\ pc = "formatted" =>
        LET ls == Lines(out)
            builds == {j \in 1..Len(ls) : Find(ls[j], SP_BUILD) > 0}
        IN  /\ ls[2] = indentation(initialIndent, indentSize)
                           \o Modifier(glass.accessor)
                           \o SubSeq(SP_CLASS_BUILDER, 2, Len(SP_CLASS_BUILDER))
                           \o <<SP, "{">>
            /\ Cardinality(builds) = 1
            /\ \A j \in builds :
                   ls[j] = indentation(initialIndent + 1, indentSize)
                               \o Modifier(glass.accessor) \o glass.name
                               \o SP_BUILD \o <<SP, "{">>

\* C10's case: a builder formatted for a class with the empty accessor.
C10_Witness ==
    /\ pc = "formatted"
    /\ glass.accessor = <<>>
    /\ indentSize = 2
    /\ initialIndent = 1
    /\ Lines(out)[2] = <<SP, SP, "c", "l", "a", "s", "s", SP,
                         "B", "u", "i", "l", "d", "e", "r", SP, "{">>


(***************************************************************************)
(* Observations of the command and of field extraction.                    *)
(***************************************************************************)
Range(list) == {list[i] : i \in 1..Len(list)}

\* The step of the command: from the view it is run on to its outcome.
Ran == pc = "ready" /\ pc' # "ready"

\* The fields declared by the lines of a text, in the order of the lines.
DeclaredBy(ls) ==
    LET declaring == SelectSeq(ls, LAMBDA l : l.declares # <<>>)
    IN  [i \in 1..Len(declaring) |-> declaring[i].declares[1]]

\* `<accessor>? class <Name>` at p, the accessor one of private, protected and
\* public: with the accessor when one starts at p, else without.
DeclarationAt(s, p) ==
    IF AccessorEnd(s, p) > 0 /\ ClassRest(s, AccessorEnd(s, p)).ok
    THEN [ok |-> TRUE,
          class |-> Class(SubSeq(s, p, RunEnd(s, p, WordChars) - 1),
                          ClassRest(s, AccessorEnd(s, p)).name)]
    ELSE [ok |-> ClassRest(s, p).ok,
          class |-> Class(<<>>, ClassRest(s, p).name)]

ClassDeclarations(s) == {p \in 1..Len(s) : DeclarationAt(s, p).ok}

HasDeclaration(s) == ClassDeclarations(s) # {}

FirstDeclaration(s) == DeclarationAt(s, Min(ClassDeclarations(s))).class

\* C3: when several separate spans are selected, every field that fieldsIn
\* finds in a span taken on its own is among the fields the command extracts
\* from the spans put together.
C3_SpanFieldsKept ==
    [][Ran /\ Len(sel) >= 2 /\ pc' = "done" =>
        \A i \in 1..Len(sel) :
            Range(fieldsIn(Substr(view, sel[i]))) \subseteq Range(fields')]_vars

\* C4: from a text of one-line field declarations among other lines, fieldsIn
\* returns the declared (type, name) pairs, one for each declaration, in the
\* order of the text, and nothing for the other lines.
C4_ExactlyTheDeclaredFields ==
    pc = "extracted" => fields = DeclaredBy(lines)

\* C5: on a text with a declaration `<accessor>? class <Name>` the command
\* gets from getGlass the accessor (empty when absent) and the name of the
\* first such declaration, and getGlass raises no error.
C5_FirstDeclarationFound ==
    [][Ran /\ HasDeclaration(view) =>
        /\ glass' = FirstDeclaration(view)
        /\ ~getGlassRaises(Substr(view, find(view)))]_vars

\* C6: on a text without a class declaration the command fails with a
\* ParseError, and the view is left as it was.
C6_NoClassIsParseError ==
    [][Ran /\ ~HasDeclaration(view) =>
        /\ pc' = "failed"
        /\ err' = "ParseError"
        /\ view' = view]_vars


(***************************************************************************)
(* Constructor generation, checked under SpecBuilder.  The commands of the *)
(* program are the TextCommand classes of the module: the builder command  *)
(* alone (JavaxGenerateConstructor is commented out), so what the program  *)
(* generates for a class and its fields is the output of Build and Format. *)
(***************************************************************************)
\* The constructor of Foo for the fields (String, name) and (int, age), as
\* formatted with indentSize 2 at level 1.
FooConstructor ==
    <<<<" ", " ", "p", "r", "i", "v", "a", "t", "e", " ", "F", "o", "o", "(",
        "S", "t", "r", "i", "n", "g", " ", "n", "a", "m", "e", ",", " ", "i",
        "n", "t", " ", "a", "g", "e", ")", " ", "{">>,
      <<" ", " ", " ", " ", "t", "h", "i", "s", ".", "n", "a", "m", "e", " ",
        "=", " ", "n", "a", "m", "e", ";">>,
      <<" ", " ", " ", " ", "t", "h", "i", "s", ".", "a", "g", "e", " ", "=",
        " ", "a", "g", "e", ";">>,
      <<" ", " ", "}">>>>

\* The lines of block occur in text, one after the other.
HasLines(text, block) ==
    LET ls == Lines(text)
    IN  \E j \in 0..(Len(ls) - Len(block)) :
            \A k \in 1..Len(block) : ls[j + k] = block[k]

\* C11: for the class Foo and the fields (String, name) and (int, age), what
\* the program generates and formats with indentSize 2 at level 1 has the
\* private constructor Foo(String name, int age) with the assignments
\* this.name = name; and this.age = age; in this order: the constructor that
\* the generated build() invokes.
C11_ConstructorGenerated ==
    /\ pc = "formatted"
    /\ glass.name = <<"F", "o", "o">>
    /\ NamesOf(fields) = <<<<"n", "a", "m", "e">>, <<"a", "g", "e">>>>
    /\ indentSize = 2
    /\ initialIndent = 1
    => HasLines(out, FooConstructor)


(***************************************************************************)
(* The formatted builder against the snippet it was made from, checked     *)
(* under SpecBuilder.                                                      *)
(***************************************************************************)
MARKER_PAD == <<"+", "+", "+", ";">>
MARKER_CUT == <<"-", "-", "-", ";">>

\* s without its white space.
Dense(s) == Pick(s, SelectSeq(Indices(s), LAMBDA i : s[i] \notin WhiteChars))

\* s without the statements `+++;` and `---;`.
Unmarked(s) ==
    LET Marked(i) == \E p \in (i - 3)..i :
                         HasAt(s, p, MARKER_PAD) \/ HasAt(s, p, MARKER_CUT)
    IN  Pick(s, SelectSeq(Indices(s), LAMBDA i : ~ Marked(i)))

\* Every `}` of the sanitized snippet comes right after a delimiter.
ClosingAfterDelimiter(c) ==
    LET s == sanitizeJava(c)
    IN  \A p \in 1..Len(s) :
            s[p] = "}" => p > 1 /\ s[p - 1] \in Delimiters

HasMarker(s) == Find(s, <<"+", "+", "+">>) > 0 \/ Find(s, <<"-", "-", "-">>) > 0

\* C12: with indentSize >= 1 and initialIndent >= 1, formatting the builder of
\* any class and fields raises no error; every `}` of the snippet follows a
\* delimiter; the output has no marker, and without its white space it is the
\* snippet without its white space and its `+++;` and `---;` statements.
C12_BuilderFormattedWhole ==
    pc \in {"formatted", "failed"} /\ indentSize >= 1 /\ initialIndent >= 1 =>
        /\ pc = "formatted"
        /\ ClosingAfterDelimiter(code)
        /\ ~ HasMarker(out)
        /\ Dense(out) = Unmarked(Dense(code))

C12_Witness ==
    /\ pc = "formatted"
    /\ indentSize >= 1
    /\ initialIndent >= 1
    /\ glass.accessor = <<>>
    /\ fields = <<>>
    /\ HasMarker(code)
    /\ Dense(out) = Unmarked(Dense(code))
    /\ Dense(out) # Dense(code)

====
